---- MODULE Spec2Model ----
(***************************************************************************)
(* Model of the signalk-seastate plugin (src/src/index.ts): the plugin     *)
(* state object, its lifecycle (start / stop), the three delivery paths    *)
(* for attitude and heading (streambundle stream, subscription-manager     *)
(* delta, 2-second polling read of the server's data model) and the tick   *)
(* procedure calculateSeaState with its period and direction estimators.   *)
(*                                                                         *)
(* Number representation (the program computes in IEEE doubles):           *)
(*   - pitch / roll   : integers, unit 0.01 rad                            *)
(*   - angles         : integers, unit pi/12 (15 degrees); Pi = 12         *)
(*   - time           : integers, milliseconds                             *)
(*   - periods        : integers, milliseconds (quotients are floored)     *)
(*   - confidence     : integers, permille (1000 = 1.0)                    *)
(*   - smoothing, K   : integers, permille                                 *)
(* Quotients that are not integers in these units are floored.             *)
(***************************************************************************)
EXTENDS Integers, Sequences, FiniteSets, TLC

\* The absent value (JavaScript null / undefined); outside every value domain.
Null == -99999

(***************************************************************************)
(* Bounds of the exploration.                                              *)
(***************************************************************************)
\* Budgets of a behaviour that begins at construction (Spec):
\* calls of calculateSeaState, attitude values and heading values arriving
\* from the environment, calls of plugin.start.
MaxCalls == 4
MaxAttitudes == 3
MaxHeadings == 1
MaxStarts == 2
\* Budgets of a behaviour that begins after a warm-up (SpecWarm).
WarmCalls == 6
WarmAttitudes == 2
WarmHeadings == 1
\* Budgets of a behaviour that begins after a long run on a swell (SpecLong),
\* and the number of samples of that run.
LongCalls == 3
LongAttitudes == 2
LongHeadings == 1
LongSamples == 30

(***************************************************************************)
(* Program constants.                                                      *)
(***************************************************************************)
\* radians -> the angle unit: pi and 2*pi
Pi == 12
TwoPi == 2 * Pi
\* the buffer-depth tests with the literal 10 mistyped as 1
MinSamplesOne == 10 \div 10
\* literal 10 of the buffer-depth tests (index.ts 480, 603, 696, 702)
MinSamples == 10
\* maxPeriodSamples (index.ts 643) and the direction buffer limit (568)
MaxPeriodSamples == 10
MaxDirectionSamples == 10
\* directionBuffer.length > 5 (index.ts 573)
MinConfidenceSamples == 5
\* setInterval(..., 2000) of the direct-access timer (index.ts 245)
PollMs == 2000
\* period: 1000 of the subscription (index.ts 314): pushed values arrive,
\* and the clock is read, this far apart
StreamMs == 1000
\* 0.01 rad in hundredths of a degree (180/pi = 57.2958)
DegPerUnit == 57

(***************************************************************************)
(* Arithmetic helpers.                                                     *)
(***************************************************************************)
Abs(x) == IF x < 0 THEN -x ELSE x

Max(a, b) == IF a >= b THEN a ELSE b

RECURSIVE SumSeq(_)
SumSeq(s) == IF s = <<>> THEN 0 ELSE Head(s) + SumSeq(Tail(s))

\* Math.ceil(a / b) for a >= 0, b > 0
Ceil(a, b) == (a + b - 1) \div b

RECURSIVE IsqrtIn(_, _, _)
IsqrtIn(n, lo, hi) ==
  IF lo >= hi THEN lo
  ELSE LET mid == (lo + hi + 1) \div 2
       IN IF mid * mid <= n THEN IsqrtIn(n, mid, hi) ELSE IsqrtIn(n, lo, mid - 1)

\* floor of the square root (n below 2^30)
Isqrt(n) == IsqrtIn(n, 0, IF n > 32768 THEN 32768 ELSE n)

\* Math.hypot(pitchDeg, rollDeg), in hundredths of a degree
Hypot(p, r) == Isqrt((p * p + r * r) * DegPerUnit * DegPerUnit)

\* 1000 * sin / cos of a grid angle (multiples of 15 degrees)
SinTable == <<0, 259, 500, 707, 866, 966, 1000, 966, 866, 707, 500, 259,
              0, -259, -500, -707, -866, -966, -1000, -966, -866, -707, -500, -259>>

Sin(a) == SinTable[(a % TwoPi) + 1]

Cos(a) == SinTable[((a + Pi \div 2) % TwoPi) + 1]

\* 1000 * tan of 7.5, 22.5, 37.5, 52.5, 67.5 and 82.5 degrees: the borders
\* between the grid angles of the first quadrant
TanBorders == <<132, 414, 767, 1303, 2414, 7596>>

\* the grid angle nearest to atan(ay / ax) for ax, ay >= 0, not both 0
AtanGrid(ay, ax) == Cardinality({i \in 1..6 : 1000 * ay > TanBorders[i] * ax})

\* Math.atan2(y, x), rounded to the angle grid; atan2(0, 0) = 0
Atan2(y, x) ==
  IF x = 0 /\ y = 0 THEN 0
  ELSE IF x >= 0 /\ y >= 0 THEN AtanGrid(y, x)
  ELSE IF x < 0 /\ y >= 0 THEN Pi - AtanGrid(y, -x)
  ELSE IF x < 0 THEN AtanGrid(-y, -x) - Pi
  ELSE -AtanGrid(-y, x)

\* Math.sin(pitch) for a pitch in 0.01 rad, as 1e6 * (x - x^3/6)
SinMicro(p) == p * 10000 - (p * p * p) \div 6

(***************************************************************************)
(* Configurations (PluginConfig, index.ts 173-188).  capacity is not a     *)
(* field: start derives maxBufferSize from periodBufferSize and            *)
(* updateRate.  Periods are in seconds, as in the plugin schema.           *)
(***************************************************************************)
\* the defaults of plugin.start with periodBufferSize 11: capacity 11
CfgDefault ==
  [waveMultiplier |-> 500, vesselLength |-> 12, updateRate |-> 1000,
   periodBufferSize |-> 11, minimumPeriod |-> 2, maximumPeriod |-> 20,
   directionSmoothing |-> 300,
   enableHeave |-> TRUE, enablePeriod |-> TRUE, enableDirection |-> TRUE]

\* immediate smoothing, short period window: capacity 10
CfgResponsive ==
  [waveMultiplier |-> 500, vesselLength |-> 12, updateRate |-> 1000,
   periodBufferSize |-> 10, minimumPeriod |-> 1, maximumPeriod |-> 5,
   directionSmoothing |-> 1000,
   enableHeave |-> TRUE, enablePeriod |-> TRUE, enableDirection |-> TRUE]

\* slow update rate, optional features off: capacity ceil(10000/4000) = 3
CfgSparse ==
  [waveMultiplier |-> 500, vesselLength |-> 12, updateRate |-> 4000,
   periodBufferSize |-> 10, minimumPeriod |-> 2, maximumPeriod |-> 20,
   directionSmoothing |-> 300,
   enableHeave |-> FALSE, enablePeriod |-> FALSE, enableDirection |-> FALSE]

\* optional features off at the default rates: capacity 10
CfgMotionOnly ==
  [waveMultiplier |-> 500, vesselLength |-> 12, updateRate |-> 1000,
   periodBufferSize |-> 10, minimumPeriod |-> 2, maximumPeriod |-> 20,
   directionSmoothing |-> 300,
   enableHeave |-> FALSE, enablePeriod |-> FALSE, enableDirection |-> FALSE]

Configs == {CfgDefault, CfgResponsive, CfgSparse}

\* Math.ceil((periodBufferSize * 1000) / updateRate)
Capacity(cfg) == Ceil(cfg.periodBufferSize * 1000, cfg.updateRate)

(***************************************************************************)
(* Inputs.  An attitude value is the object delivered on                   *)
(* navigation.attitude; a field that is not a number is Null.              *)
(***************************************************************************)
AttitudeValues ==
  { [pitch |-> 10, roll |-> 5],
    [pitch |-> 0, roll |-> -5],
    [pitch |-> Null, roll |-> 5],
    [pitch |-> 10, roll |-> Null] }

\* heading values in the angle unit: 0, pi/2, and one beyond 4*pi
HeadingValues == {0, 6, 50}

(***************************************************************************)
(* calculateHeave (index.ts 390-394): vesselLength * sin(pitch), in mm.    *)
(***************************************************************************)
calculateHeave(pitchRad, vesselLength) == (vesselLength * SinMicro(pitchRad)) \div 1000

(***************************************************************************)
(* calculateMotionStatistics (index.ts 397-465).  With N = buffer.length,  *)
(* the variances are kept multiplied by N*N (N*sum(x^2) - sum(x)^2), which *)
(* leaves the variance ratio and the sign of the correlation exact.  The   *)
(* 1e-10 of the ratio is below the unit: ratio > 2 is VP > 2*VR and        *)
(* ratio < 0.5 is 2*VP <= VR.  0/0 is NaN, which the code replaces by 0.   *)
(* motionPhaseShift is computed by the code and read nowhere; it is left   *)
(* out.                                                                    *)
(***************************************************************************)
RECURSIVE SumPitch(_)
SumPitch(b) == IF b = <<>> THEN 0 ELSE Head(b).pitch + SumPitch(Tail(b))

RECURSIVE SumRoll(_)
SumRoll(b) == IF b = <<>> THEN 0 ELSE Head(b).roll + SumRoll(Tail(b))

RECURSIVE SumProd(_, _)
SumProd(b, k) ==
  IF b = <<>> THEN 0
  ELSE (CASE k = "pp" -> Head(b).pitch * Head(b).pitch
          [] k = "rr" -> Head(b).roll * Head(b).roll
          [] OTHER    -> Head(b).pitch * Head(b).roll) + SumProd(Tail(b), k)

calculateMotionStatistics(buffer) ==
  IF Len(buffer) < 5
  THEN [pitchVariance |-> 0, rollVariance |-> 0, crossCorrelation |-> 0,
        dominantMotionAxis |-> "combined"]
  ELSE LET n  == Len(buffer)
           sp == SumPitch(buffer)
           sr == SumRoll(buffer)
           vp == n * SumProd(buffer, "pp") - sp * sp
           vr == n * SumProd(buffer, "rr") - sr * sr
           cv == n * SumProd(buffer, "pr") - sp * sr
           root == Isqrt(vp * vr)
           q  == IF root = 0 THEN 0 ELSE (1000 * cv) \div root
       IN [pitchVariance |-> vp, rollVariance |-> vr,
           crossCorrelation |-> IF cv > 0 THEN Max(1, q) ELSE q,
           dominantMotionAxis |->
             IF vp > 2 * vr THEN "pitch"
             ELSE IF 2 * vp <= vr THEN "roll"
             ELSE "combined"]

(***************************************************************************)
(* calculateRelativeWaveDirection (index.ts 479-516).  In the combined     *)
(* branch cos(atan2(roll, pitch)) * hypot(pitchDeg, rollDeg) is pitchDeg   *)
(* and the sine term is rollDeg, so sumX and sumY are the sums of pitch    *)
(* and roll of the last 10 entries (times 180/pi, which atan2 ignores).    *)
(***************************************************************************)
Slice10(buffer) ==
  IF Len(buffer) <= 10 THEN buffer ELSE SubSeq(buffer, Len(buffer) - 9, Len(buffer))

calculateRelativeWaveDirection(buffer, stats) ==
  IF Len(buffer) < MinSamples THEN Null
  ELSE LET rel ==
             IF stats.dominantMotionAxis = "pitch"
             THEN (IF stats.crossCorrelation > 0 THEN 0 ELSE Pi)
             ELSE IF stats.dominantMotionAxis = "roll"
             THEN (IF stats.crossCorrelation > 0 THEN Pi \div 2 ELSE (3 * Pi) \div 2)
             ELSE LET recentBuffer == Slice10(buffer)
                  IN Atan2(SumRoll(recentBuffer), SumPitch(recentBuffer))
       IN IF rel < 0 THEN rel + TwoPi ELSE rel

(***************************************************************************)
(* calculateAbsoluteWaveDirection (index.ts 519-599).  ds is               *)
(* state.directionState; the result is the returned direction and the      *)
(* direction state the call leaves behind.                                 *)
(***************************************************************************)
\* "Ensure direction is in range [0, 2pi)": one subtraction, one addition
WrapOnce(a) ==
  LET b == IF a >= TwoPi THEN a - TwoPi ELSE a
  IN IF b < 0 THEN b + TwoPi ELSE b

\* the difference of two directions taken without the wrap
WrapDeltaNone(d) == d

\* the wrapped difference of index.ts 551-553 and 582-584
WrapDelta(d) ==
  LET e == IF d > Pi THEN d - TwoPi ELSE d
  IN IF e < -Pi THEN e + TwoPi ELSE e

\* index.ts 535-543: relative direction plus heading, normalised
RawAbsoluteDirection(relativeDirection, lastHeading) ==
  WrapOnce(relativeDirection + lastHeading)

\* index.ts 546-564: smoothing against the previous direction
SmoothDirection(absoluteDirection, lastDirection, smoothing) ==
  IF lastDirection = Null THEN absoluteDirection
  ELSE LET deltaDir == WrapDelta(absoluteDirection - lastDirection)
       IN WrapOnce(lastDirection + (smoothing * deltaDir) \div 1000)

\* directionBuffer.push(x); shift() when longer than 10 (index.ts 567-570)
PushDirection(directionBuffer, x) ==
  LET b == Append(directionBuffer, x)
  IN IF Len(b) > MaxDirectionSamples THEN Tail(b) ELSE b

RECURSIVE SumSin(_)
SumSin(d) == IF d = <<>> THEN 0 ELSE Sin(Head(d)) + SumSin(Tail(d))

RECURSIVE SumCos(_)
SumCos(d) == IF d = <<>> THEN 0 ELSE Cos(Head(d)) + SumCos(Tail(d))

RECURSIVE SumSqDiff(_, _)
SumSqDiff(d, avg) ==
  IF d = <<>> THEN 0
  ELSE LET diff == WrapDelta(Head(d) - avg)
       IN diff * diff + SumSqDiff(Tail(d), avg)

\* the confidence without the clamp at 0
ConfidenceNoClamp(directions) ==
  LET avgDirection == Atan2(SumSin(directions), SumCos(directions))
      sumSq == SumSqDiff(directions, avgDirection)
  IN 1000 - (4000 * sumSq) \div (Len(directions) * Pi * Pi)

\* index.ts 574-589: max(0, 1 - variance / (pi^2 / 4)), in permille
Confidence(directions) ==
  LET avgDirection == Atan2(SumSin(directions), SumCos(directions))
      sumSq == SumSqDiff(directions, avgDirection)
  IN Max(0, 1000 - (4000 * sumSq) \div (Len(directions) * Pi * Pi))

\* the computation with the confidence recomputed whatever the history holds
AbsoluteDirectionBodyEagerConfidence(buffer, stats, lastHeading, ds, smoothing) ==
  LET relativeDirection == calculateRelativeWaveDirection(buffer, stats)
  IN IF relativeDirection = Null THEN [direction |-> Null, ds |-> ds]
     ELSE LET raw == RawAbsoluteDirection(relativeDirection, lastHeading)
              absoluteDirection == SmoothDirection(raw, ds.lastDirection, smoothing)
              dbuf == PushDirection(ds.directionBuffer, absoluteDirection)
          IN [direction |-> absoluteDirection,
              ds |-> [directionBuffer |-> dbuf,
                      lastDirection |-> absoluteDirection,
                      directionConfidence |-> Confidence(dbuf)]]

\* the computation with the unsmoothed direction pushed onto the history
AbsoluteDirectionBodyRawHistory(buffer, stats, lastHeading, ds, smoothing) ==
  LET relativeDirection == calculateRelativeWaveDirection(buffer, stats)
  IN IF relativeDirection = Null THEN [direction |-> Null, ds |-> ds]
     ELSE LET raw == RawAbsoluteDirection(relativeDirection, lastHeading)
              absoluteDirection == SmoothDirection(raw, ds.lastDirection, smoothing)
              dbuf == PushDirection(ds.directionBuffer, raw)
          IN [direction |-> absoluteDirection,
              ds |-> [directionBuffer |-> dbuf,
                      lastDirection |-> absoluteDirection,
                      directionConfidence |->
                        IF Len(dbuf) > MinConfidenceSamples
                        THEN Confidence(dbuf)
                        ELSE ds.directionConfidence]]

\* index.ts 526-598: the computation once the heading is known
AbsoluteDirectionBody(buffer, stats, lastHeading, ds, smoothing) ==
  LET relativeDirection == calculateRelativeWaveDirection(buffer, stats)
  IN IF relativeDirection = Null THEN [direction |-> Null, ds |-> ds]
     ELSE LET raw == RawAbsoluteDirection(relativeDirection, lastHeading)
              absoluteDirection == SmoothDirection(raw, ds.lastDirection, smoothing)
              dbuf == PushDirection(ds.directionBuffer, absoluteDirection)
          IN [direction |-> absoluteDirection,
              ds |-> [directionBuffer |-> dbuf,
                      lastDirection |-> absoluteDirection,
                      directionConfidence |->
                        IF Len(dbuf) > MinConfidenceSamples
                        THEN Confidence(dbuf)
                        ELSE ds.directionConfidence]]

\* JavaScript arithmetic on null: null counts as 0
Num(x) == IF x = Null THEN 0 ELSE x

\* calculateAbsoluteWaveDirection without the test of index.ts 521-524
AbsoluteWaveDirectionNoHeadingTest(buffer, stats, lastHeading, ds, smoothing) ==
  AbsoluteDirectionBody(buffer, stats, Num(lastHeading), ds, smoothing)

calculateAbsoluteWaveDirection(buffer, stats, lastHeading, ds, smoothing) ==
  IF lastHeading = Null THEN [direction |-> Null, ds |-> ds]
  ELSE AbsoluteDirectionBody(buffer, stats, lastHeading, ds, smoothing)

(***************************************************************************)
(* calculatePeriod (index.ts 602-650).  The result is the returned period  *)
(* (ms) and state.periodState.periods after the call.                      *)
(***************************************************************************)
\* the sign-change test with a value of 0 counted on both sides
IsCrossingInclusive(prev, curr) == (prev <= 0 /\ curr >= 0) \/ (prev >= 0 /\ curr <= 0)

\* index.ts 613: the sign-change test between consecutive roll values
IsCrossing(prev, curr) == (prev < 0 /\ curr >= 0) \/ (prev > 0 /\ curr <= 0)

\* index.ts 608-620: the timestamps of the crossings, in buffer order
RECURSIVE ZeroCrossings(_, _)
ZeroCrossings(buffer, i) ==
  IF i > Len(buffer) THEN <<>>
  ELSE LET rest == ZeroCrossings(buffer, i + 1)
       IN IF IsCrossing(buffer[i - 1].roll, buffer[i].roll)
          THEN <<buffer[i].timestamp>> \o rest
          ELSE rest

\* the accepted intervals themselves, without the factor 2 of index.ts 633
RECURSIVE CurrentPeriodsHalf(_, _, _)
CurrentPeriodsHalf(zc, j, cfg) ==
  IF j > Len(zc) THEN <<>>
  ELSE LET timeDiff == zc[j] - zc[j - 1]
           rest == CurrentPeriodsHalf(zc, j + 1, cfg)
       IN IF timeDiff >= cfg.minimumPeriod * 1000 /\ timeDiff <= cfg.maximumPeriod * 1000
          THEN <<timeDiff>> \o rest
          ELSE rest

\* index.ts 626-634: twice every accepted interval between consecutive crossings
RECURSIVE CurrentPeriods(_, _, _)
CurrentPeriods(zc, j, cfg) ==
  IF j > Len(zc) THEN <<>>
  ELSE LET timeDiff == zc[j] - zc[j - 1]
           rest == CurrentPeriods(zc, j + 1, cfg)
       IN IF timeDiff >= cfg.minimumPeriod * 1000 /\ timeDiff <= cfg.maximumPeriod * 1000
          THEN <<timeDiff * 2>> \o rest
          ELSE rest

\* the push with pop() in place of shift(): the newest estimate is dropped
PushPeriodDropNewest(periods, x) ==
  LET b == Append(periods, x)
  IN IF Len(b) > MaxPeriodSamples THEN SubSeq(b, 1, Len(b) - 1) ELSE b

\* periods.push(x); shift() when longer than maxPeriodSamples (index.ts 640-646)
PushPeriod(periods, x) ==
  LET b == Append(periods, x)
  IN IF Len(b) > MaxPeriodSamples THEN Tail(b) ELSE b

\* calculatePeriod emptying the history when a scan yields no estimate
calculatePeriodForgetful(buffer, cfg, periods) ==
  IF Len(buffer) < MinSamples THEN [period |-> Null, periods |-> periods]
  ELSE LET zeroCrossings == ZeroCrossings(buffer, 2)
       IN IF Len(zeroCrossings) < 2 THEN [period |-> Null, periods |-> <<>>]
          ELSE LET currentPeriods == CurrentPeriods(zeroCrossings, 2, cfg)
               IN IF Len(currentPeriods) = 0 THEN [period |-> Null, periods |-> <<>>]
                  ELSE LET avgPeriod == SumSeq(currentPeriods) \div Len(currentPeriods)
                           hist == PushPeriod(periods, avgPeriod)
                       IN [period |-> SumSeq(hist) \div Len(hist), periods |-> hist]

\* calculatePeriod asking for more than 2 crossings
calculatePeriodThreeCrossings(buffer, cfg, periods) ==
  IF Len(buffer) < MinSamples THEN [period |-> Null, periods |-> periods]
  ELSE LET zeroCrossings == ZeroCrossings(buffer, 2)
       IN IF Len(zeroCrossings) <= 2 THEN [period |-> Null, periods |-> periods]
          ELSE LET currentPeriods == CurrentPeriods(zeroCrossings, 2, cfg)
               IN IF Len(currentPeriods) = 0 THEN [period |-> Null, periods |-> periods]
                  ELSE LET avgPeriod == SumSeq(currentPeriods) \div Len(currentPeriods)
                           hist == PushPeriod(periods, avgPeriod)
                       IN [period |-> SumSeq(hist) \div Len(hist), periods |-> hist]

calculatePeriod(buffer, cfg, periods) ==
  IF Len(buffer) < MinSamples THEN [period |-> Null, periods |-> periods]
  ELSE LET zeroCrossings == ZeroCrossings(buffer, 2)
       IN IF Len(zeroCrossings) < 2 THEN [period |-> Null, periods |-> periods]
          ELSE LET currentPeriods == CurrentPeriods(zeroCrossings, 2, cfg)
               IN IF Len(currentPeriods) = 0 THEN [period |-> Null, periods |-> periods]
                  ELSE LET avgPeriod == SumSeq(currentPeriods) \div Len(currentPeriods)
                           hist == PushPeriod(periods, avgPeriod)
                       IN [period |-> SumSeq(hist) \div Len(hist), periods |-> hist]

(***************************************************************************)
(* calculateSeaState (index.ts 653-736), the tick procedure, as a function *)
(* of the engine part of the plugin state and of the time Date.now().      *)
(* emitted tells whether emitSeaStateData was called; the other fields are *)
(* the state the call leaves behind and the result handed to the sink.     *)
(* The yaw of a buffer entry is stored by the code and read nowhere; it is *)
(* left out.                                                               *)
(***************************************************************************)
NoResults ==
  [waveHeight |-> Null, heave |-> Null, period |-> Null, direction |-> Null,
   directionDegrees |-> Null, directionConfidence |-> Null,
   motionMagnitude |-> Null, timestamp |-> Null]

\* the push with pop() in place of shift(): the newest entry is the one dropped
PushEntryDropNewest(buffer, entry, maxSize) ==
  LET b == Append(buffer, entry)
  IN IF Len(b) > maxSize THEN SubSeq(b, 1, Len(b) - 1) ELSE b

\* attitudeBuffer.push(entry); shift() when longer than maxBufferSize (679-684)
PushEntry(buffer, entry, maxSize) ==
  LET b == Append(buffer, entry)
  IN IF Len(b) > maxSize THEN Tail(b) ELSE b

\* index.ts 661-722: the tick once pitch and roll are known
SeaStateBody(e, t) ==
  LET cfg == e.currentConfig
      motionMagnitude == Hypot(e.lastAttitude.pitch, e.lastAttitude.roll)
      bufferEntry == [pitch |-> e.lastAttitude.pitch,
                      roll |-> e.lastAttitude.roll,
                      timestamp |-> t,
                      motionMagnitude |-> motionMagnitude]
      buf == PushEntry(e.attitudeBuffer, bufferEntry, e.maxBufferSize)
      waveHeight == (cfg.waveMultiplier * motionMagnitude) \div 1000
      heave == IF cfg.enableHeave
               THEN calculateHeave(e.lastAttitude.pitch, cfg.vesselLength)
               ELSE Null
      per == IF cfg.enablePeriod /\ Len(buf) >= MinSamples
             THEN calculatePeriod(buf, cfg, e.periods)
             ELSE [period |-> Null, periods |-> e.periods]
      dir == IF cfg.enableDirection /\ Len(buf) >= MinSamples
             THEN calculateAbsoluteWaveDirection(
                    buf, calculateMotionStatistics(buf), e.lastHeading,
                    e.directionState, cfg.directionSmoothing)
             ELSE [direction |-> Null, ds |-> e.directionState]
  IN [emitted |-> TRUE, attitudeBuffer |-> buf,
      periods |-> per.periods, directionState |-> dir.ds,
      results |->
        [waveHeight |-> waveHeight, heave |-> heave, period |-> per.period,
         direction |-> dir.direction,
         directionDegrees |-> IF dir.direction = Null THEN Null
                              ELSE dir.direction * 15,
         directionConfidence |-> dir.ds.directionConfidence,
         motionMagnitude |-> motionMagnitude, timestamp |-> t]]

\* calculateSeaState without the test of index.ts 656-659
SeaStateNoAttitudeTest(e, t) ==
  SeaStateBody([e EXCEPT !.lastAttitude = [pitch |-> Num(e.lastAttitude.pitch),
                                           roll |-> Num(e.lastAttitude.roll)]], t)

calculateSeaState(e, t) ==
  IF e.lastAttitude.pitch = Null \/ e.lastAttitude.roll = Null
  THEN [emitted |-> FALSE, attitudeBuffer |-> e.attitudeBuffer,
        periods |-> e.periods, directionState |-> e.directionState,
        results |-> NoResults]
  ELSE SeaStateBody(e, t)

(***************************************************************************)
(* updateAttitudeFromValue (index.ts 370-387): a field of the value that   *)
(* is a number overwrites the last-known one, any other field keeps it.    *)
(***************************************************************************)
updateAttitudeFromValue(lastAtt, value) ==
  [pitch |-> IF value.pitch # Null THEN value.pitch ELSE lastAtt.pitch,
   roll  |-> IF value.roll # Null THEN value.roll ELSE lastAtt.roll]

(***************************************************************************)
(* The state.  The first block is PluginState (index.ts 41-63); the second *)
(* is the environment: the live subscriptions and timers the server holds, *)
(* the server's data model read by app.getSelfPath, and the clock; the     *)
(* third records what the plugin handed out and what it was handed.        *)
(***************************************************************************)
VARIABLES
  lastAttitude, lastHeading, attitudeBuffer, maxBufferSize, periods,
  directionState, currentConfig, unsubscribes, directDataTimer,
  streams, deltas, timers, selfAttitude, selfHeading, now,
  results, deliveredHeading,
  callsLeft, attitudesLeft, headingsLeft, startsLeft

engineVars ==
  <<attitudeBuffer, periods, directionState, results>>

lifeVars ==
  <<maxBufferSize, currentConfig, unsubscribes, directDataTimer,
    streams, deltas, timers, startsLeft>>

vars ==
  <<lastAttitude, lastHeading, attitudeBuffer, maxBufferSize, periods,
    directionState, currentConfig, unsubscribes, directDataTimer,
    streams, deltas, timers, selfAttitude, selfHeading, now,
    results, deliveredHeading,
    callsLeft, attitudesLeft, headingsLeft, startsLeft>>

\* the part of the plugin state calculateSeaState reads
Engine ==
  [lastAttitude |-> lastAttitude, lastHeading |-> lastHeading,
   attitudeBuffer |-> attitudeBuffer, maxBufferSize |-> maxBufferSize,
   periods |-> periods, directionState |-> directionState,
   currentConfig |-> currentConfig]

NoAttitude == [pitch |-> Null, roll |-> Null]

\* index.ts 41-63.  currentConfig is {} until the first start and no code
\* reads it before; the model holds the defaults of start there.
Init ==
  /\ lastAttitude = NoAttitude
  /\ lastHeading = Null
  /\ attitudeBuffer = <<>>
  /\ maxBufferSize = 30
  /\ periods = <<>>
  /\ directionState = [directionBuffer |-> <<>>, lastDirection |-> Null,
                       directionConfidence |-> 0]
  /\ currentConfig = CfgDefault
  /\ unsubscribes = <<>>
  /\ directDataTimer = 0
  /\ streams = {}
  /\ deltas = {}
  /\ timers = {}
  /\ selfAttitude = NoAttitude
  /\ selfHeading = Null
  /\ now = 0
  /\ results = NoResults
  /\ deliveredHeading = Null
  /\ callsLeft = MaxCalls
  /\ attitudesLeft = MaxAttitudes
  /\ headingsLeft = MaxHeadings
  /\ startsLeft = MaxStarts

(***************************************************************************)
(* plugin.start (index.ts 165-254).  api is what the server offers:        *)
(* "streambundle" when app.streambundle is there and getSelfStream works,  *)
(* "subscriptionmanager" otherwise (index.ts 217-223, 301-304).  The       *)
(* subscription manager pushes its unsubscribe function onto the array it  *)
(* is given (state.unsubscribes).  Every start creates a new interval      *)
(* timer, stores its handle in state.directDataTimer and pushes a closure  *)
(* that clears the handle the field holds when the closure runs.           *)
(***************************************************************************)
Start(cfg, api) ==
  /\ startsLeft > 0
  /\ startsLeft' = startsLeft - 1
  /\ currentConfig' = cfg
  /\ maxBufferSize' = Capacity(cfg)
  /\ LET id == startsLeft
     IN /\ IF api = "streambundle"
           THEN /\ streams' = streams \cup {id}
                /\ deltas' = deltas
                /\ unsubscribes' = unsubscribes \o
                     <<[kind |-> "stream", id |-> id], [kind |-> "timer", id |-> 0]>>
           ELSE /\ deltas' = deltas \cup {id}
                /\ streams' = streams
                /\ unsubscribes' = unsubscribes \o
                     <<[kind |-> "delta", id |-> id], [kind |-> "timer", id |-> 0]>>
        /\ timers' = timers \cup {id}
        /\ directDataTimer' = id
  /\ UNCHANGED <<lastAttitude, lastHeading, attitudeBuffer, periods,
                 directionState, selfAttitude, selfHeading, now, results,
                 deliveredHeading, callsLeft, attitudesLeft, headingsLeft>>

(***************************************************************************)
(* plugin.stop (index.ts 256-272): runs every stored unsubscribe function, *)
(* empties the array and clears the timer state.directDataTimer names.     *)
(***************************************************************************)
Unsubscribed(kind) ==
  {unsubscribes[i].id : i \in {j \in 1..Len(unsubscribes) : unsubscribes[j].kind = kind}}

Stop ==
  /\ streams' = streams \ Unsubscribed("stream")
  /\ deltas' = deltas \ Unsubscribed("delta")
  /\ timers' = timers \ {directDataTimer}
  /\ unsubscribes' = <<>>
  /\ UNCHANGED <<lastAttitude, lastHeading, attitudeBuffer, maxBufferSize,
                 periods, directionState, currentConfig, directDataTimer,
                 selfAttitude, selfHeading, now, results,
                 deliveredHeading, callsLeft, attitudesLeft,
                 headingsLeft, startsLeft>>

(***************************************************************************)
(* One call of calculateSeaState at time t with the last-known attitude    *)
(* and heading att and hdg, as every handler below makes it.               *)
(***************************************************************************)
\* a call of calculateSeaState cut short after the buffer push
TickPushOnly(att, hdg, t) ==
  \E r \in {calculateSeaState([Engine EXCEPT !.lastAttitude = att, !.lastHeading = hdg], t)} :
     /\ attitudeBuffer' = r.attitudeBuffer
     /\ periods' = periods
     /\ directionState' = directionState
     /\ results' = results
     /\ callsLeft' = callsLeft - 1
     /\ now' = t

Tick(att, hdg, t) ==
  \E r \in {calculateSeaState([Engine EXCEPT !.lastAttitude = att, !.lastHeading = hdg], t)} :
     /\ attitudeBuffer' = r.attitudeBuffer
     /\ periods' = r.periods
     /\ directionState' = r.directionState
     /\ results' = IF r.emitted THEN r.results ELSE results
     /\ callsLeft' = callsLeft - 1
     /\ now' = t

(***************************************************************************)
(* The attitude handlers.  A value that reaches the plugin has first       *)
(* reached the server's data model.  The time read by Date.now() is        *)
(* StreamMs after the previous reading (PollMs in the timer callback).     *)
(***************************************************************************)
\* attitudeStream.onValue (index.ts 279-285)
StreamAttitude(id, value) ==
  /\ id \in streams
  /\ attitudesLeft > 0
  /\ callsLeft > 0
  /\ attitudesLeft' = attitudesLeft - 1
  /\ selfAttitude' = value
  /\ lastAttitude' = updateAttitudeFromValue(lastAttitude, value)
  /\ Tick(lastAttitude', lastHeading, now + StreamMs)
  /\ UNCHANGED <<lastHeading, selfHeading, deliveredHeading, headingsLeft, lifeVars>>

\* the delta callback, attitude branch (index.ts 353-356)
DeltaAttitude(id, value) ==
  /\ id \in deltas
  /\ attitudesLeft > 0
  /\ callsLeft > 0
  /\ attitudesLeft' = attitudesLeft - 1
  /\ selfAttitude' = value
  /\ lastAttitude' = updateAttitudeFromValue(lastAttitude, value)
  /\ Tick(lastAttitude', lastHeading, now + StreamMs)
  /\ UNCHANGED <<lastHeading, selfHeading, deliveredHeading, headingsLeft, lifeVars>>

(***************************************************************************)
(* The heading handlers.                                                   *)
(***************************************************************************)
\* headingStream.onValue (index.ts 289-294)
StreamHeading(id, value) ==
  /\ id \in streams
  /\ headingsLeft > 0
  /\ headingsLeft' = headingsLeft - 1
  /\ selfHeading' = value
  /\ lastHeading' = value
  /\ deliveredHeading' = value
  /\ UNCHANGED <<lastAttitude, selfAttitude, now, callsLeft,
                 attitudesLeft, engineVars, lifeVars>>

\* the delta callback, heading branch (index.ts 357-360)
DeltaHeading(id, value) ==
  /\ id \in deltas
  /\ headingsLeft > 0
  /\ headingsLeft' = headingsLeft - 1
  /\ selfHeading' = value
  /\ lastHeading' = value
  /\ deliveredHeading' = value
  /\ UNCHANGED <<lastAttitude, selfAttitude, now, callsLeft,
                 attitudesLeft, engineVars, lifeVars>>

\* a heading reaches the data model and no handler of the plugin
ServerHeading(value) ==
  /\ headingsLeft > 0
  /\ headingsLeft' = headingsLeft - 1
  /\ selfHeading' = value
  /\ UNCHANGED <<lastAttitude, lastHeading, selfAttitude, now, callsLeft,
                 deliveredHeading, attitudesLeft, engineVars, lifeVars>>

(***************************************************************************)
(* The direct-access timer callback (index.ts 226-245): reads the current  *)
(* attitude and heading of the data model, takes each over when its value  *)
(* is truthy, and ticks when the attitude is.  An attitude object is       *)
(* truthy; a heading is truthy when it is a number other than 0.           *)
(***************************************************************************)
Truthy(x) == x # Null /\ x # 0

PollHeading(current, last) == IF Truthy(current) THEN current ELSE last

Poll(id) ==
  /\ id \in timers
  /\ callsLeft > 0
  /\ lastHeading' = PollHeading(selfHeading, lastHeading)
  /\ deliveredHeading' = IF selfHeading # Null THEN selfHeading ELSE deliveredHeading
  /\ IF selfAttitude # NoAttitude
     THEN /\ lastAttitude' = updateAttitudeFromValue(lastAttitude, selfAttitude)
          /\ Tick(lastAttitude', lastHeading', now + PollMs)
     ELSE /\ lastHeading' # lastHeading \/ deliveredHeading' # deliveredHeading
          /\ UNCHANGED <<lastAttitude, now, callsLeft, engineVars>>
  /\ UNCHANGED <<selfAttitude, selfHeading, attitudesLeft, headingsLeft, lifeVars>>

Next ==
  \/ \E cfg \in Configs, api \in {"streambundle", "subscriptionmanager"} : Start(cfg, api)
  \/ Stop
  \/ \E id \in streams, value \in AttitudeValues : StreamAttitude(id, value)
  \/ \E id \in deltas, value \in AttitudeValues : DeltaAttitude(id, value)
  \/ \E id \in streams, value \in HeadingValues : StreamHeading(id, value)
  \/ \E id \in deltas, value \in HeadingValues : DeltaHeading(id, value)
  \/ \E value \in HeadingValues : ServerHeading(value)
  \/ \E id \in timers : Poll(id)

Spec == Init /\ [][Next]_vars

(***************************************************************************)
(* Behaviours that begin after a warm-up: the state the plugin is in after *)
(* start(cfg) on a server offering api and the delivery, by the push       *)
(* handler and StreamMs apart, of the attitude values of a script.  The    *)
(* state is computed with the operators of the handlers themselves.        *)
(***************************************************************************)
Bow == [pitch |-> 10, roll |-> 5]

Port == [pitch |-> 0, roll |-> -5]

WarmScripts ==
  { <<Bow, Bow, Bow, Bow, Bow, Bow, Bow, Bow, Bow>>,
    <<Bow, Bow, Port, Port, Port, Bow, Bow, Bow, Port>>,
    <<Bow, Port, Bow, Port, Bow, Port, Bow, Port, Bow>> }

WarmConfigs == {CfgDefault, CfgResponsive, CfgMotionOnly}

\* the engine state and the last result after the push handler took over
\* value and ticked at time t
AfterDelivery(w, value, t) ==
  LET att == updateAttitudeFromValue(w.e.lastAttitude, value)
      r == calculateSeaState([w.e EXCEPT !.lastAttitude = att], t)
  IN [e |-> [w.e EXCEPT !.lastAttitude = att,
                        !.attitudeBuffer = r.attitudeBuffer,
                        !.periods = r.periods,
                        !.directionState = r.directionState],
      results |-> IF r.emitted THEN r.results ELSE w.results]

RECURSIVE AfterScript(_, _, _)
AfterScript(w, script, i) ==
  IF i > Len(script) THEN w
  ELSE AfterScript(AfterDelivery(w, script[i], i * StreamMs), script, i + 1)

InitWarm ==
  \E cfg \in WarmConfigs, api \in {"streambundle", "subscriptionmanager"},
     script \in WarmScripts :
    LET e0 == [lastAttitude |-> NoAttitude, lastHeading |-> Null,
               attitudeBuffer |-> <<>>, maxBufferSize |-> Capacity(cfg),
               periods |-> <<>>,
               directionState |-> [directionBuffer |-> <<>>, lastDirection |-> Null,
                                   directionConfidence |-> 0],
               currentConfig |-> cfg]
        w == AfterScript([e |-> e0, results |-> NoResults], script, 1)
    IN /\ lastAttitude = w.e.lastAttitude
       /\ lastHeading = Null
       /\ attitudeBuffer = w.e.attitudeBuffer
       /\ maxBufferSize = Capacity(cfg)
       /\ periods = w.e.periods
       /\ directionState = w.e.directionState
       /\ currentConfig = cfg
       /\ unsubscribes = <<[kind |-> IF api = "streambundle" THEN "stream" ELSE "delta",
                            id |-> 1],
                           [kind |-> "timer", id |-> 0]>>
       /\ directDataTimer = 1
       /\ streams = IF api = "streambundle" THEN {1} ELSE {}
       /\ deltas = IF api = "streambundle" THEN {} ELSE {1}
       /\ timers = {1}
       /\ selfAttitude = script[Len(script)]
       /\ selfHeading = Null
       /\ now = Len(script) * StreamMs
       /\ results = w.results
       /\ deliveredHeading = Null
       /\ callsLeft = WarmCalls
       /\ attitudesLeft = WarmAttitudes
       /\ headingsLeft = WarmHeadings
       /\ startsLeft = 0

\* the handlers, between a start and a stop
NextWarm ==
  \/ \E id \in streams, value \in AttitudeValues : StreamAttitude(id, value)
  \/ \E id \in deltas, value \in AttitudeValues : DeltaAttitude(id, value)
  \/ \E id \in streams, value \in HeadingValues : StreamHeading(id, value)
  \/ \E id \in deltas, value \in HeadingValues : DeltaHeading(id, value)
  \/ \E value \in HeadingValues : ServerHeading(value)
  \/ \E id \in timers : Poll(id)

SpecWarm == InitWarm /\ [][NextWarm]_vars

(***************************************************************************)
(* Behaviours that begin after a long run on a swell: the state the plugin *)
(* is in after start(cfg), a heading h delivered (or none), and the        *)
(* delivery, StreamMs apart, of LongSamples samples of the roll signal     *)
(* 0.1 * sin(2 * pi * t / 5 s): 0, 0.095, 0.059, -0.059, -0.095 in a       *)
(* cycle, rounded to the unit.  The sample at a multiple of the period is  *)
(* 0 up to the rounding of the sine, which leaves a residue of either      *)
(* sign; z stands for it.  The handlers then go on, with the samples of    *)
(* the swell among the values they may be handed.                          *)
(***************************************************************************)
\* the roll of sample k (k = 0 at t = 0) with z at the multiples of the period
SwellRoll(k, z) ==
  CASE k % 5 = 0 -> z
    [] k % 5 = 1 -> 10
    [] k % 5 = 2 -> 6
    [] k % 5 = 3 -> -6
    [] OTHER     -> -10

ZeroResidues == {-1, 0, 1}

SwellScript(z) == [i \in 1..LongSamples |-> [pitch |-> 2, roll |-> SwellRoll(i - 1, z)]]

SwellValues == {[pitch |-> 2, roll |-> SwellRoll(k, 0)] : k \in 0..4}

LongAttitudeValues == SwellValues \cup {Bow, [pitch |-> Null, roll |-> 5]}

\* the defaults of plugin.start: capacity 30
CfgDefaults ==
  [waveMultiplier |-> 500, vesselLength |-> 12, updateRate |-> 1000,
   periodBufferSize |-> 30, minimumPeriod |-> 2, maximumPeriod |-> 20,
   directionSmoothing |-> 300,
   enableHeave |-> TRUE, enablePeriod |-> TRUE, enableDirection |-> TRUE]

LongConfigs == {CfgDefaults, CfgDefault}

InitLong ==
  \E cfg \in LongConfigs, api \in {"streambundle", "subscriptionmanager"},
     z \in ZeroResidues, h \in {Null, 6} :
    LET e0 == [lastAttitude |-> NoAttitude, lastHeading |-> h,
               attitudeBuffer |-> <<>>, maxBufferSize |-> Capacity(cfg),
               periods |-> <<>>,
               directionState |-> [directionBuffer |-> <<>>, lastDirection |-> Null,
                                   directionConfidence |-> 0],
               currentConfig |-> cfg]
    IN \E w \in {AfterScript([e |-> e0, results |-> NoResults], SwellScript(z), 1)} :
       /\ lastAttitude = w.e.lastAttitude
       /\ lastHeading = h
       /\ attitudeBuffer = w.e.attitudeBuffer
       /\ maxBufferSize = Capacity(cfg)
       /\ periods = w.e.periods
       /\ directionState = w.e.directionState
       /\ currentConfig = cfg
       /\ unsubscribes = <<[kind |-> IF api = "streambundle" THEN "stream" ELSE "delta",
                            id |-> 1],
                           [kind |-> "timer", id |-> 0]>>
       /\ directDataTimer = 1
       /\ streams = IF api = "streambundle" THEN {1} ELSE {}
       /\ deltas = IF api = "streambundle" THEN {} ELSE {1}
       /\ timers = {1}
       /\ selfAttitude = SwellScript(z)[LongSamples]
       /\ selfHeading = h
       /\ now = LongSamples * StreamMs
       /\ results = w.results
       /\ deliveredHeading = h
       /\ callsLeft = LongCalls
       /\ attitudesLeft = LongAttitudes
       /\ headingsLeft = LongHeadings
       /\ startsLeft = 0

NextLong ==
  \/ \E id \in streams, value \in LongAttitudeValues : StreamAttitude(id, value)
  \/ \E id \in deltas, value \in LongAttitudeValues : DeltaAttitude(id, value)
  \/ \E id \in streams, value \in HeadingValues : StreamHeading(id, value)
  \/ \E id \in deltas, value \in HeadingValues : DeltaHeading(id, value)
  \/ \E value \in HeadingValues : ServerHeading(value)
  \/ \E id \in timers : Poll(id)

SpecLong == InitLong /\ [][NextLong]_vars

(***************************************************************************)
(* Properties.  A step is a tick when it calls calculateSeaState, which is *)
(* when it takes one call from the budget; the tick emitted a result when  *)
(* the result's timestamp is the time the tick read.                       *)
(***************************************************************************)
IsTick == callsLeft' # callsLeft

Emitted == IsTick /\ results'.timestamp = now'

AllEnabled(cfg) == cfg.enableHeave /\ cfg.enablePeriod /\ cfg.enableDirection

\* C1: in every reachable state the sample buffer is no longer than the
\* capacity maxBufferSize of the configuration in force.
C1_BufferWithinCapacity == Len(attitudeBuffer) <= maxBufferSize

\* C2: a period reported by a tick lies between minimumPeriod and
\* maximumPeriod of the configuration (seconds; the period is in ms).
C2_PeriodWithinRange ==
  results.period # Null =>
    /\ results.period >= currentConfig.minimumPeriod * 1000
    /\ results.period <= currentConfig.maximumPeriod * 1000

\* C3: a direction reported by a tick is at least 0 and below 2*pi.
C3_DirectionInRange ==
  results.direction # Null => (results.direction >= 0 /\ results.direction < TwoPi)

\* C4: the stored direction confidence, and the one of every result, lies in
\* [0, 1] (permille: 0..1000).
C4_ConfidenceInUnitInterval ==
  /\ directionState.directionConfidence \in 0..1000
  /\ results.directionConfidence # Null => results.directionConfidence \in 0..1000

\* C4 witness: the confidence has been recomputed from a history of more
\* than 5 directions and is neither 0 nor 1.
C4_Witness ==
  /\ Len(directionState.directionBuffer) > MinConfidenceSamples
  /\ directionState.directionConfidence \in 1..999
  /\ results.directionConfidence = directionState.directionConfidence

\* C5: a tick invoked while the last-known pitch or roll is absent changes
\* neither the sample buffer, the period history, the direction state
\* (history, last direction, confidence) nor the result handed to the sink.
C5_SkippedTickIsNoOp ==
  [][(IsTick /\ (lastAttitude'.pitch = Null \/ lastAttitude'.roll = Null)) =>
       /\ attitudeBuffer' = attitudeBuffer
       /\ periods' = periods
       /\ directionState' = directionState
       /\ results' = results]_vars

\* C5 witness: a tick has run with only one of pitch and roll known and
\* nothing was pushed or emitted.
C5_Witness ==
  /\ callsLeft < MaxCalls
  /\ lastAttitude # NoAttitude
  /\ lastAttitude.pitch = Null \/ lastAttitude.roll = Null
  /\ attitudeBuffer = <<>>
  /\ results = NoResults

\* C6: a tick with the heading absent reports no direction and leaves the
\* direction state unchanged, and its waveHeight, heave, period and
\* motionMagnitude are those the same tick would report with any heading.
C6_MissingHeadingOnlyDropsDirection ==
  [][(Emitted /\ lastHeading' = Null) =>
       /\ results'.direction = Null
       /\ results'.directionDegrees = Null
       /\ directionState' = directionState
       /\ \A h \in HeadingValues :
            LET r == calculateSeaState(
                       [Engine EXCEPT !.lastAttitude = lastAttitude', !.lastHeading = h],
                       now').results
            IN /\ r.waveHeight = results'.waveHeight
               /\ r.heave = results'.heave
               /\ r.period = results'.period
               /\ r.motionMagnitude = results'.motionMagnitude]_vars

\* C6 witness: a tick on 10 or more entries with direction enabled and the
\* heading absent reported a period and no direction.
C6_Witness ==
  /\ lastHeading = Null
  /\ results.timestamp = now
  /\ Len(attitudeBuffer) >= MinSamples
  /\ currentConfig.enableDirection
  /\ results.period # Null
  /\ results.direction = Null

\* C7: a tick that leaves fewer than 10 entries in the buffer reports neither
\* period nor direction and changes neither the period history nor the
\* direction state, whatever the toggles.
C7_ShallowBufferReportsNeither ==
  [][(Emitted /\ Len(attitudeBuffer') < 10) =>
       /\ results'.period = Null
       /\ results'.direction = Null
       /\ periods' = periods
       /\ directionState' = directionState]_vars

\* C7 witness: both toggles on, the heading known and two zero crossings an
\* accepted interval apart in the buffer, and a tick on fewer than 10
\* entries reported neither period nor direction.
C7_Witness ==
  /\ results.timestamp = now
  /\ Len(attitudeBuffer) < 10
  /\ currentConfig.enablePeriod /\ currentConfig.enableDirection
  /\ lastHeading # Null
  /\ Len(CurrentPeriods(ZeroCrossings(attitudeBuffer, 2), 2, currentConfig)) > 0
  /\ results.period = Null
  /\ results.direction = Null

\* the last step was a tick with the heading absent that left 10 or more
\* entries, under a configuration with every toggle on
HeadingAbsentDeepTick ==
  /\ results.timestamp = now
  /\ lastHeading = Null
  /\ Len(attitudeBuffer) >= 10
  /\ AllEnabled(currentConfig)

\* C8 as stated: on such a tick direction is absent and waveHeight, heave,
\* period, motionMagnitude and timestamp all carry a value.
C8_AllOtherFieldsPresent ==
  HeadingAbsentDeepTick =>
    /\ results.direction = Null
    /\ results.waveHeight # Null
    /\ results.heave # Null
    /\ results.period # Null
    /\ results.motionMagnitude # Null
    /\ results.timestamp # Null

\* C8 amended: on such a tick direction is absent, waveHeight, heave,
\* motionMagnitude and timestamp carry a value, and period carries a value
\* exactly when the roll scan of the buffer finds two consecutive zero
\* crossings whose interval lies in [minimumPeriod, maximumPeriod].
C8_OtherFieldsPresentPeriodIfCrossings ==
  HeadingAbsentDeepTick =>
    /\ results.direction = Null
    /\ results.waveHeight # Null
    /\ results.heave # Null
    /\ results.motionMagnitude # Null
    /\ results.timestamp # Null
    /\ results.period # Null <=>
         Len(CurrentPeriods(ZeroCrossings(attitudeBuffer, 2), 2, currentConfig)) > 0

\* C8 witness: such a tick, with a period reported.
C8_Witness == HeadingAbsentDeepTick /\ results.period # Null /\ results.direction = Null

\* C9: with directionSmoothing = 1 a tick that reports a direction reports
\* the unsmoothed absolute direction (relative direction plus heading,
\* normalised as index.ts 535-543 does).
C9_FullSmoothingReportsRaw ==
  [][(Emitted /\ currentConfig.directionSmoothing = 1000 /\ results'.direction # Null) =>
       results'.direction =
         RawAbsoluteDirection(
           calculateRelativeWaveDirection(attitudeBuffer',
                                          calculateMotionStatistics(attitudeBuffer')),
           lastHeading')]_vars

\* C10: the heading is absent until a heading value has been delivered, and
\* at every tick the heading the tick uses is the value most recently
\* delivered to the plugin, by whichever path.
C10_TickUsesLatestHeading ==
  [][IsTick => lastHeading' = deliveredHeading']_vars

C12_StartAfterStopIsFresh ==
  [][(startsLeft' # startsLeft /\ unsubscribes = <<>>) =>
       /\ attitudeBuffer' = <<>>
       /\ periods' = <<>>
       /\ directionState'.directionBuffer = <<>>
       /\ directionState'.lastDirection = Null
       /\ lastHeading' = Null]_vars

\* C13: under one configuration every non-skipped tick appends its entry (the
\* pitch and roll just stored, the time just read) behind the entries already
\* held and, when that exceeds the capacity, drops the oldest, so the buffer
\* is the last min(n, capacity) pushed entries in push order; and the
\* timestamps of the buffer never decrease from one entry to the next.
C13_BufferIsFifoAndTimeOrdered ==
  /\ [](\A i \in 1..(Len(attitudeBuffer) - 1) :
          attitudeBuffer[i].timestamp <= attitudeBuffer[i + 1].timestamp)
  /\ [][Emitted =>
          LET n == Len(attitudeBuffer')
              m == Len(attitudeBuffer)
          IN /\ n = IF m + 1 <= maxBufferSize THEN m + 1 ELSE maxBufferSize
             /\ attitudeBuffer'[n].pitch = lastAttitude'.pitch
             /\ attitudeBuffer'[n].roll = lastAttitude'.roll
             /\ attitudeBuffer'[n].timestamp = now'
             /\ SubSeq(attitudeBuffer', 1, n - 1) =
                  SubSeq(attitudeBuffer, m - n + 2, m)]_vars

\* C13 witness: the buffer is at capacity, its oldest entry is no longer the
\* first one pushed, and the last step was a non-skipped tick.
C13_Witness ==
  /\ Len(attitudeBuffer) = maxBufferSize
  /\ attitudeBuffer[1].timestamp > StreamMs
  /\ results.timestamp = now

\* C14: no partial entry is pushed: a tick made for a delivered attitude
\* value that lacks pitch or roll pushes nothing and emits nothing, and the
\* entry a tick pushes has the pitch and the roll of the value delivered.
\* (selfAttitude is the value the handler of the step was handed or read.)
C14_EntryFromOneSample ==
  [][IsTick =>
       IF selfAttitude'.pitch = Null \/ selfAttitude'.roll = Null
       THEN attitudeBuffer' = attitudeBuffer /\ results' = results
       ELSE Emitted =>
              /\ attitudeBuffer'[Len(attitudeBuffer')].pitch = selfAttitude'.pitch
              /\ attitudeBuffer'[Len(attitudeBuffer')].roll = selfAttitude'.roll]_vars

\* C15: the direction state (last direction, direction history, confidence)
\* changes only on a tick that reports a direction.  A tick with
\* enableDirection off, or leaving fewer than 10 entries in the buffer, or
\* with the heading absent reports none; a tick that reports one appends
\* exactly the reported direction to the history (dropping the oldest beyond
\* 10) and stores it as the last direction.
C15_DirectionStateOnlyOnSuccess ==
  [][/\ (Emitted /\ (~currentConfig.enableDirection
                      \/ Len(attitudeBuffer') < 10
                      \/ lastHeading' = Null)) => results'.direction = Null
     /\ IF Emitted /\ results'.direction # Null
        THEN LET h == Append(directionState.directionBuffer, results'.direction)
             IN /\ directionState'.lastDirection = results'.direction
                /\ directionState'.directionBuffer =
                     IF Len(h) > 10 THEN SubSeq(h, 2, Len(h)) ELSE h
        ELSE directionState' = directionState]_vars

\* C15 witness: under a smoothing factor below 1, a tick reported a
\* direction other than the one before it, and the history holds both.
C15_Witness ==
  /\ results.timestamp = now
  /\ currentConfig.directionSmoothing < 1000
  /\ results.direction # Null
  /\ directionState.lastDirection = results.direction
  /\ Len(directionState.directionBuffer) >= 2
  /\ directionState.directionBuffer[Len(directionState.directionBuffer) - 1]
       # results.direction

\* C16: the period history changes only on a tick that reports a period.  A
\* tick whose roll scan finds fewer than 2 zero crossings, or no crossing
\* interval in the accepted range, or that runs with enablePeriod off,
\* reports no period; a tick that reports none leaves the history exactly as
\* it was, and one that reports one has appended one estimate to it.
C16_PeriodHistoryOnlyOnSuccess ==
  [][/\ (Emitted /\ (~currentConfig.enablePeriod
                      \/ Len(ZeroCrossings(attitudeBuffer', 2)) < 2
                      \/ Len(CurrentPeriods(ZeroCrossings(attitudeBuffer', 2), 2,
                                            currentConfig)) = 0))
          => results'.period = Null
     /\ IF Emitted /\ results'.period # Null
        THEN /\ Len(periods') = (IF Len(periods) < 10 THEN Len(periods) + 1 ELSE 10)
             /\ SubSeq(periods', 1, Len(periods') - 1) =
                  SubSeq(periods, Len(periods) - Len(periods') + 2, Len(periods))
        ELSE periods' = periods]_vars

\* C16 witness: enablePeriod on, 10 or more entries, a history that holds
\* earlier estimates, and a last tick that reported no period.
C16_Witness ==
  /\ results.timestamp = now
  /\ currentConfig.enablePeriod
  /\ Len(attitudeBuffer) >= 10
  /\ periods # <<>>
  /\ results.period = Null

\* C17: the period history and the direction history never hold more than
\* 10 entries, and a tick that appends to a history holding 10 drops its
\* oldest entry: the 9 newest stay, in order, ahead of the new entry (the
\* new entry is the direction reported; for the period history the mean of
\* the 10 entries is the period reported).
C17_HistoriesBounded ==
  /\ [](Len(periods) <= 10 /\ Len(directionState.directionBuffer) <= 10)
  /\ [][/\ (Emitted /\ results'.period # Null /\ Len(periods) = 10) =>
             /\ Len(periods') = 10
             /\ SubSeq(periods', 1, 9) = Tail(periods)
             /\ results'.period = SumSeq(periods') \div 10
        /\ (Emitted /\ results'.direction # Null
                    /\ Len(directionState.directionBuffer) = 10) =>
             /\ Len(directionState'.directionBuffer) = 10
             /\ SubSeq(directionState'.directionBuffer, 1, 9) =
                  Tail(directionState.directionBuffer)
             /\ directionState'.directionBuffer[10] = results'.direction]_vars

\* C17 witness: after the long run a further tick reported a period and a
\* direction, both histories hold 10 entries, and the period history holds
\* two different estimates (so dropping the wrong end would show).
C17_Witness ==
  /\ results.timestamp = now
  /\ now > LongSamples * StreamMs
  /\ results.period # Null
  /\ results.direction # Null
  /\ Len(periods) = 10
  /\ Len(directionState.directionBuffer) = 10
  /\ periods[1] # periods[10]

\* C18: while the direction history holds fewer than 6 entries the confidence
\* is the initial 0, in the state and in every result (so up to and
\* including the 5th successful direction computation); a tick that reports
\* a direction and leaves 6 or more entries in the history has recomputed
\* the confidence from the history and reports that value.
C18_ConfidenceFromSixthDirection ==
  /\ [](Len(directionState.directionBuffer) < 6 =>
          /\ directionState.directionConfidence = 0
          /\ results.directionConfidence \in {Null, 0})
  /\ [][Emitted =>
          /\ results'.directionConfidence = directionState'.directionConfidence
          /\ (results'.direction # Null /\ Len(directionState'.directionBuffer) >= 6) =>
               directionState'.directionConfidence =
                 Confidence(directionState'.directionBuffer)
          /\ results'.direction = Null =>
               directionState'.directionConfidence = directionState.directionConfidence]_vars

\* C18 witness: the 5th successful direction computation, reported with
\* confidence 0 although its five directions agree.
C18_Witness ==
  /\ results.timestamp = now
  /\ results.direction # Null
  /\ Len(directionState.directionBuffer) = 5
  /\ \A i \in 1..5 : directionState.directionBuffer[i] = results.direction
  /\ results.directionConfidence = 0

\* the indices of the buffer at which the scan of calculatePeriod records a
\* crossing (the timestamps of the buffer are distinct)
CrossingIndices(buffer) ==
  UNION { {i \in 2..Len(buffer) : \E j \in 1..Len(zc) : zc[j] = buffer[i].timestamp} :
          zc \in {ZeroCrossings(buffer, 2)} }

\* C19: the scan records a crossing at index i exactly when roll[i-1] < 0 and
\* roll[i] >= 0, or roll[i-1] > 0 and roll[i] <= 0, and records it once.  So
\* a reversal of sign from roll[a] to roll[c] with any number of samples
\* equal to 0 between them is one crossing, and no crossing is recorded at an
\* index whose predecessor is 0.
C19_CrossingOncePerReversal ==
  \E b \in {attitudeBuffer} : \E X \in {CrossingIndices(b)} :
     /\ \A i \in 2..Len(b) :
          i \in X <=> \/ (b[i - 1].roll < 0 /\ b[i].roll >= 0)
                      \/ (b[i - 1].roll > 0 /\ b[i].roll <= 0)
     /\ Len(ZeroCrossings(b, 2)) = Cardinality(X)
     /\ \A a \in 1..Len(b) : \A c \in (a + 1)..Len(b) :
          (/\ (b[a].roll < 0 /\ b[c].roll > 0) \/ (b[a].roll > 0 /\ b[c].roll < 0)
           /\ \A k \in (a + 1)..(c - 1) : b[k].roll = 0)
            => Cardinality(X \cap (a + 1)..c) = 1
     /\ \A i \in 2..Len(b) : b[i - 1].roll = 0 => i \notin X

\* C19 witness: the buffer holds a reversal through two samples equal to 0
\* (negative, 0, 0, positive) and the last tick, which scanned it, reported a
\* period.
C19_Witness ==
  /\ results.timestamp = now
  /\ results.period # Null
  /\ \E i \in 1..(Len(attitudeBuffer) - 3) :
       /\ attitudeBuffer[i].roll < 0
       /\ attitudeBuffer[i + 1].roll = 0
       /\ attitudeBuffer[i + 2].roll = 0
       /\ attitudeBuffer[i + 3].roll > 0

\* the intervals between consecutive crossings of a buffer that lie in
\* [minimumPeriod, maximumPeriod] (ms)
AcceptedIntervals(buffer, cfg) ==
  LET zc == ZeroCrossings(buffer, 2)
      intervals == [j \in 1..(Len(zc) - 1) |-> zc[j + 1] - zc[j]]
      InRange(h) == h >= cfg.minimumPeriod * 1000 /\ h <= cfg.maximumPeriod * 1000
  IN SelectSeq(intervals, InRange)

\* every tick so far sampled the 5-second swell, StreamMs apart, there were
\* LongSamples of them or more, and the last one emitted
SwellSoFar ==
  /\ results.timestamp = now
  /\ now >= LongSamples * StreamMs
  /\ currentConfig.minimumPeriod = 2 /\ currentConfig.maximumPeriod = 20
  /\ \A i \in 1..Len(attitudeBuffer) :
       /\ attitudeBuffer[i].timestamp = now - (Len(attitudeBuffer) - i) * StreamMs
       /\ \E z \in ZeroResidues :
            attitudeBuffer[i].roll =
              SwellRoll(attitudeBuffer[i].timestamp \div StreamMs - 1, z)

\* C20: a reported period is the mean of the period history after the
\* estimate of the tick's scan has been appended to it, the estimate being
\* the mean, over the crossing intervals h within [minimumPeriod,
\* maximumPeriod], of 2 * h; and after 30 or more ticks, 1000 ms apart, of a
\* roll signal of period 5 s, with minimumPeriod 2 and maximumPeriod 20, the
\* period reported lies between 4 s and 6 s.
C20_PeriodIsMeanOfHistory ==
  /\ [](SwellSoFar => (results.period # Null /\ results.period \in 4000..6000))
  /\ [][(Emitted /\ results'.period # Null) =>
          LET acc == AcceptedIntervals(attitudeBuffer', currentConfig)
          IN /\ Len(acc) > 0
             /\ periods'[Len(periods')] = (2 * SumSeq(acc)) \div Len(acc)
             /\ results'.period = SumSeq(periods') \div Len(periods')]_vars

\* C20 witness: a tick beyond the 30th on the swell reported a period
\* strictly between 4 s and 6 s from a history of both 4 s and 6 s estimates.
C20_Witness ==
  /\ SwellSoFar
  /\ now > LongSamples * StreamMs
  /\ results.period \in 4001..5999
  /\ \E i \in 1..Len(periods) : periods[i] # periods[1]

\* the unsmoothed absolute direction of the buffer and heading of a state
RawDirectionOf(buffer, heading) ==
  RawAbsoluteDirection(
    calculateRelativeWaveDirection(buffer, calculateMotionStatistics(buffer)), heading)

\* result lies on the shorter arc from p to r, the fraction s (permille) of
\* the way: with d the signed shorter way from p to r and m the signed way
\* from p to result, m is on the side of d, no longer than d, and s * d up to
\* the rounding of the angle unit
OnShorterArc(p, r, s, result) ==
  \E d \in (-Pi)..Pi, m \in (-Pi)..Pi :
     /\ (p + d - r) % TwoPi = 0
     /\ (p + m - result) % TwoPi = 0
     /\ d >= 0 => m \in 0..d
     /\ d <= 0 => m \in d..0
     /\ Abs(1000 * m - s * d) < 1000

\* C21: a tick that smooths (a previous direction p exists) with a factor s
\* strictly between 0 and 1, p and the unsmoothed direction r both in
\* [0, 2*pi), reports a direction in [0, 2*pi) on the shorter arc from p to
\* r, at s times the wrapped distance between them from p, also when p and r
\* lie on opposite sides of the 0 / 2*pi wrap.
C21_SmoothingAlongShorterArc ==
  [][(/\ Emitted
      /\ results'.direction # Null
      /\ directionState.lastDirection \in 0..(TwoPi - 1)
      /\ currentConfig.directionSmoothing \in 1..999) =>
       \A r \in {RawDirectionOf(attitudeBuffer', lastHeading')} :
          r \in 0..(TwoPi - 1) =>
            /\ results'.direction \in 0..(TwoPi - 1)
            /\ OnShorterArc(directionState.lastDirection, r,
                            currentConfig.directionSmoothing,
                            results'.direction)]_vars

\* C21 witness: the last tick smoothed from a previous direction p towards an
\* unsmoothed direction more than pi away from p as numbers (the shorter arc
\* crosses the wrap), both in [0, 2*pi), and reported a direction other than p.
C21_Witness ==
  /\ results.timestamp = now
  /\ results.direction # Null
  /\ currentConfig.directionSmoothing \in 1..999
  /\ Len(directionState.directionBuffer) >= 2
  /\ LET n == Len(directionState.directionBuffer)
         p == directionState.directionBuffer[n - 1]
         r == RawDirectionOf(attitudeBuffer, lastHeading)
     IN /\ p \in 0..(TwoPi - 1)
        /\ r \in 0..(TwoPi - 1)
        /\ Abs(r - p) > Pi
        /\ directionState.directionBuffer[n] = results.direction
        /\ results.direction # p

\* C22: every attitude value is ingested at most once: a step that pushes a
\* buffer entry (a non-skipped tick) is a step in which a new attitude value
\* arrived from the environment, so the pushes never outnumber the values
\* delivered and no path pushes a value another path has pushed already.
C22_PushOnlyOnNewSample ==
  [][Emitted => attitudesLeft' = attitudesLeft - 1]_vars

\* C23: once stop has returned (no unsubscribe function is registered) and
\* until the next start, no tick runs and no result is emitted, however many
\* times start was called before the stop.
C23_NoTickWhileStopped ==
  [][unsubscribes = <<>> => (~IsTick /\ results' = results)]_vars

====
